---- MODULE Spec2Model ----
(***************************************************************************)
(* Model of src/TwitchApi.py: the TwitchApi client.  One caller constructs *)
(* the client and then calls its methods one after another.  Every HTTP    *)
(* exchange is an input chosen by the environment: the request either      *)
(* raises, or yields a body on which .json() either raises or gives a      *)
(* value.  Python exceptions are values; each operation either returns a   *)
(* value or lets an exception reach its caller.                            *)
(***************************************************************************)
EXTENDS Integers, Sequences, FiniteSets, TLC

VARIABLES pc, environ, dotenv, store_reads, store_writes,
          app_info, headers, op, arg, resp, result, calls

vars == <<pc, environ, dotenv, store_reads, store_writes,
          app_info, headers, op, arg, resp, result, calls>>

\* ------------------------------------------------------------------ bounds
MaxItems == 2
MaxStreams == 2
MaxRecords == 2
MaxPanels == 2

\* ------------------------------------------------------- program constants
ViewerThreshold == 100
VideoSentinel == 10000
FollowerSentinel == 10000000

\* ------------------------------------------------------------ Python values
None == "<None>"
NoExc == "<no exception>"
Absent == "<absent key>"
AbsentInt == -1

SeqsUpTo(S, n) == UNION {[1..k -> S] : k \in 0..n}

\* The exception classes that can arise, each with the classes it is an
\* instance of (requests.exceptions and the builtins).
Bases(e) ==
    CASE e = "SSLError"        -> {"SSLError", "ConnectionError", "RequestException", "Exception"}
      [] e = "ConnectionError" -> {"ConnectionError", "RequestException", "Exception"}
      [] e = "ConnectTimeout"  -> {"ConnectTimeout", "ConnectionError", "Timeout", "RequestException", "Exception"}
      [] e = "ReadTimeout"     -> {"ReadTimeout", "Timeout", "RequestException", "Exception"}
      [] e = "JSONDecodeError" -> {"JSONDecodeError", "ValueError", "Exception"}
      [] e = "KeyError"        -> {"KeyError", "LookupError", "Exception"}
      [] e = "IndexError"      -> {"IndexError", "LookupError", "Exception"}
      [] e = "TypeError"       -> {"TypeError", "Exception"}
      [] OTHER                 -> {"Exception"}

TransportExc == {"SSLError", "ConnectionError", "ConnectTimeout", "ReadTimeout"}

\* except (SSLError, ConnectionError, KeyError) of get_top_streams
TopStreamsHandled == {"SSLError", "ConnectionError", "KeyError"}

Catches(handled, e) == Bases(e) \cap handled # {}

\* What  requests.get(...).json()  evaluates to: an exception, or the value.
\* A response is [raises |-> transport exception or NoExc, body |-> value];
\* a body is a record with a field t in "not_json", "list", "number", "dict".
Json(r) ==
    IF r.raises # NoExc THEN [exc |-> r.raises, val |-> r.body]
    ELSE IF r.body.t = "not_json" THEN [exc |-> "JSONDecodeError", val |-> r.body]
    ELSE [exc |-> NoExc, val |-> r.body]

Raise(e) == [raised |-> e, value |-> <<>>]
Return(v) == [raised |-> NoExc, value |-> v]

\* ------------------------------------------------------------- get_token
\* responses of the validation endpoint
ValidateBodies ==
    {[t |-> "not_json", keys |-> {}], [t |-> "number", keys |-> {}],
     [t |-> "list", keys |-> {}],
     [t |-> "dict", keys |-> {"client_id", "expires_in"}],
     [t |-> "dict", keys |-> {"status", "message"}]}
ValidateResponses ==
    {[raises |-> e, body |-> [t |-> "not_json", keys |-> {}]] : e \in {"ConnectionError"}}
    \cup {[raises |-> NoExc, body |-> b] : b \in ValidateBodies}

\* responses of the token endpoint
TokenBodies ==
    {[t |-> "not_json", keys |-> {}, access_token |-> None],
     [t |-> "number", keys |-> {}, access_token |-> None],
     [t |-> "list", keys |-> {}, access_token |-> None],
     [t |-> "dict", keys |-> {"access_token", "expires_in"}, access_token |-> "tok_new"],
     [t |-> "dict", keys |-> {"status", "message"}, access_token |-> None]}
TokenResponses ==
    {[raises |-> e, body |-> [t |-> "not_json", keys |-> {}, access_token |-> None]] :
        e \in {"ConnectionError"}}
    \cup {[raises |-> NoExc, body |-> b] : b \in TokenBodies}

\* key in r  for a decoded JSON value r: membership for a dict, element
\* membership for a list (the lists here hold no such string), TypeError for
\* a number.
In(key, v) ==
    CASE v.t = "dict"   -> [exc |-> NoExc, val |-> key \in v.keys]
      [] v.t = "list"   -> [exc |-> NoExc, val |-> FALSE]
      [] OTHER          -> [exc |-> "TypeError", val |-> FALSE]

Truthy(s) == s # None /\ s # ""

ValidateCall(tok) == [ep |-> "oauth2/validate", params |-> <<tok>>]
TokenCall == [ep |-> "oauth2/token", params |-> <<"client_credentials">>]

RequestToken_retrying(rresp, done) ==
    LET r == Json(rresp)
        log == Append(done, TokenCall)
    IN  IF r.exc = NoExc /\ r.val.t = "dict" /\ "access_token" \in r.val.keys
        THEN [outcome |-> "return", token |-> r.val.access_token, exc |-> NoExc,
              msg |-> "", calls |-> log, set_key |-> r.val.access_token]
        ELSE [outcome |-> "exit", token |-> None, exc |-> "SystemExit",
              msg |-> "Unable to generate access token",
              calls |-> Append(log, TokenCall), set_key |-> None]

\* The refresh half of get_token (lines 51-65).
\* outcome: "return" (token), "exit" (sys.exit), "raise" (exception propagates)
RequestToken(rresp, done) ==
    LET r == Json(rresp)
        log == Append(done, TokenCall)
    IN  IF r.exc # NoExc
        THEN [outcome |-> "raise", token |-> None, exc |-> r.exc, msg |-> "",
              calls |-> log, set_key |-> None]
        ELSE LET has == In("access_token", r.val)
             IN  IF has.exc # NoExc
                 THEN [outcome |-> "raise", token |-> None, exc |-> has.exc, msg |-> "",
                       calls |-> log, set_key |-> None]
                 ELSE IF has.val
                 THEN [outcome |-> "return", token |-> r.val.access_token, exc |-> NoExc,
                       msg |-> "", calls |-> log, set_key |-> r.val.access_token]
                 ELSE [outcome |-> "exit", token |-> None, exc |-> "SystemExit",
                       msg |-> "Unable to generate access token",
                       calls |-> log, set_key |-> None]

get_token_unvalidated(saved_token, vresp, rresp) == RequestToken(rresp, <<>>)

get_token(saved_token, vresp, rresp) ==
    IF Truthy(saved_token)
    THEN LET r == Json(vresp)
             log == <<ValidateCall(saved_token)>>
         IN  IF r.exc # NoExc
             THEN [outcome |-> "raise", token |-> None, exc |-> r.exc, msg |-> "",
                   calls |-> log, set_key |-> None]
             ELSE LET has == In("client_id", r.val)
                  IN  IF has.exc # NoExc
                      THEN [outcome |-> "raise", token |-> None, exc |-> has.exc,
                            msg |-> "", calls |-> log, set_key |-> None]
                      ELSE IF has.val
                      THEN [outcome |-> "return", token |-> saved_token, exc |-> NoExc,
                            msg |-> "", calls |-> log, set_key |-> None]
                      ELSE RequestToken(rresp, log)
    ELSE RequestToken(rresp, <<>>)

\* os.getenv("CLIENT_ID"), os.getenv("CLIENT_SECRET")
CLIENT_ID == "client-id"
CLIENT_SECRET == "client-secret"

NoInstance == [client_id |-> None, client_secret |-> None, token |-> None]
NoHeaders == [client_id |-> None, Authorization |-> <<>>]

\* TwitchApi.__init__: get_token, then app_info and headers.
TwitchApi_init ==
    /\ pc = "start"
    /\ \E vresp \in ValidateResponses, rresp \in TokenResponses :
          LET g == get_token(environ, vresp, rresp)
          IN  /\ pc' = CASE g.outcome = "return" -> "returned"
                         [] g.outcome = "exit"   -> "exited"
                         [] OTHER                -> "raised"
              /\ store_reads' = store_reads + 1
              /\ dotenv' = IF g.set_key # None THEN g.set_key ELSE dotenv
              /\ store_writes' = IF g.set_key # None THEN store_writes + 1 ELSE store_writes
              /\ app_info' = IF g.outcome = "return"
                             THEN [client_id |-> CLIENT_ID, client_secret |-> CLIENT_SECRET,
                                   token |-> g.token]
                             ELSE NoInstance
              /\ headers' = IF g.outcome = "return"
                            THEN [client_id |-> CLIENT_ID,
                                  Authorization |-> <<"Bearer", g.token>>]
                            ELSE NoHeaders
              /\ op' = "__init__"
              /\ arg' = <<>>
              /\ resp' = [validate |-> vresp, token |-> rresp]
              /\ result' = IF g.outcome = "return" THEN Return(g.token)
                           ELSE [raised |-> g.exc, value |-> g.msg]
              /\ calls' = g.calls
    /\ UNCHANGED environ

\* ------------------------------------------------------------ subscripting
\* v[key] for a decoded JSON value: the value of the key for a dict that has
\* it, KeyError for a dict that lacks it, TypeError for anything else.
GetItem(v, key) ==
    IF v.t = "dict"
    THEN IF key \in v.keys THEN [exc |-> NoExc, val |-> v[key]]
         ELSE [exc |-> "KeyError", val |-> v]
    ELSE [exc |-> "TypeError", val |-> v]

\* str.lower() on the user names of the model
Lower(s) ==
    CASE s = "Ann" -> "ann"
      [] s = "BOB" -> "bob"
      [] OTHER     -> s

UserNames == {"Ann", "bob"}
UserId(n) == IF Lower(n) = "ann" THEN "u1" ELSE "u2"

StreamKeys == {"user_name", "user_id", "viewer_count", "title", "thumbnail_url",
               "started_at"}

Stream(n, vc, keys) ==
    [t |-> "dict", keys |-> keys, user_name |-> n, user_id |-> UserId(n),
     viewer_count |-> vc, title |-> <<"title of", n>>,
     thumbnail_url |-> <<"thumb of", n>>, started_at |-> <<"start of", n>>]

\* ------------------------------------------------------- get_top_streams
ViewerCounts == {7, 100, 101}

StreamItems ==
    {Stream(n, vc, StreamKeys) : n \in UserNames, vc \in ViewerCounts}
    \cup {Stream("Ann", 101, StreamKeys \ {"viewer_count"})}
    \cup {[Stream("bob", 101, {}) EXCEPT !.t = "number"]}

StreamsBodies ==
    {[t |-> "not_json", keys |-> {}, data |-> [t |-> "list", items |-> <<>>]],
     [t |-> "list", keys |-> {}, data |-> [t |-> "list", items |-> <<>>]],
     [t |-> "dict", keys |-> {"error", "status"}, data |-> [t |-> "list", items |-> <<>>]],
     [t |-> "dict", keys |-> {"data"}, data |-> [t |-> "number", items |-> <<>>]]}
    \cup {[t |-> "dict", keys |-> {"data", "pagination"},
           data |-> [t |-> "list", items |-> d]] : d \in SeqsUpTo(StreamItems, MaxItems)}

NoBody == [t |-> "not_json", keys |-> {}, data |-> [t |-> "list", items |-> <<>>]]

StreamsResponses ==
    {[raises |-> e, body |-> NoBody] : e \in TransportExc}
    \cup {[raises |-> NoExc, body |-> b] : b \in StreamsBodies}

\* the condition of the comprehension of line 82
OverThreshold_inclusive(viewer_count) == viewer_count >= ViewerThreshold
Over(viewer_count) == viewer_count > ViewerThreshold

\* [s for s in data if s["viewer_count"] > 100], evaluated left to right;
\* the first subscript that raises ends the comprehension.
RECURSIVE OverThreshold(_)
OverThreshold(items) ==
    IF items = <<>> THEN [exc |-> NoExc, val |-> <<>>]
    ELSE LET vc == GetItem(Head(items), "viewer_count")
         IN  IF vc.exc # NoExc THEN [exc |-> vc.exc, val |-> <<>>]
             ELSE LET rest == OverThreshold(Tail(items))
                  IN  IF rest.exc # NoExc THEN rest
                      ELSE IF Over(vc.val)
                           THEN [exc |-> NoExc, val |-> <<Head(items)>> \o rest.val]
                           ELSE rest

\* The body of the try block of get_top_streams (lines 75-82).
TopStreamsTry(sresp) ==
    LET r == Json(sresp)
    IN  IF r.exc # NoExc THEN [exc |-> r.exc, val |-> <<>>]
        ELSE LET d == GetItem(r.val, "data")
             IN  IF d.exc # NoExc THEN [exc |-> d.exc, val |-> <<>>]
                 ELSE IF d.val.t # "list" THEN [exc |-> "TypeError", val |-> <<>>]
                 ELSE OverThreshold(d.val.items)

get_top_streams(sresp) ==
    LET t == TopStreamsTry(sresp)
    IN  IF t.exc = NoExc THEN Return(t.val)
        ELSE IF Catches(TopStreamsHandled, t.exc) THEN Return(<<>>)
        ELSE Raise(t.exc)

StreamsCall == [ep |-> "helix/streams", params |-> <<"459931", "2083">>]

Call_get_top_streams_reacquiring ==
    /\ pc = "idle"
    /\ \E sresp \in StreamsResponses :
          /\ op' = "get_top_streams"
          /\ arg' = <<>>
          /\ resp' = sresp
          /\ result' = get_top_streams(sresp)
          /\ calls' = <<StreamsCall>>
          /\ IF get_top_streams(sresp).raised # NoExc
             THEN /\ dotenv' = "tok_new"
                  /\ store_writes' = store_writes + 1
                  /\ app_info' = [app_info EXCEPT !.token = "tok_new"]
             ELSE UNCHANGED <<dotenv, store_writes, app_info>>
    /\ pc' = "returned"
    /\ UNCHANGED <<environ, store_reads, headers>>

Call_get_top_streams ==
    /\ pc = "idle"
    /\ \E sresp \in StreamsResponses :
          /\ op' = "get_top_streams"
          /\ arg' = <<>>
          /\ resp' = sresp
          /\ result' = get_top_streams(sresp)
          /\ calls' = <<StreamsCall>>
    /\ pc' = "returned"
    /\ UNCHANGED <<environ, dotenv, store_reads, store_writes, app_info, headers>>

\* ------------------------------------- get_follower_count, get_video_count
FollowsBodies ==
    {[t |-> "not_json", keys |-> {}, total |-> 0],
     [t |-> "list", keys |-> {}, total |-> 0],
     [t |-> "dict", keys |-> {"error", "status"}, total |-> 0]}
    \cup {[t |-> "dict", keys |-> {"total", "data"}, total |-> n] : n \in {0, 5}}

FollowsResponses ==
    {[raises |-> e, body |-> [t |-> "not_json", keys |-> {}, total |-> 0]] :
        e \in TransportExc}
    \cup {[raises |-> NoExc, body |-> b] : b \in FollowsBodies}

Video(k) == [t |-> "dict", keys |-> {"id"}, id |-> k]

VideosData ==
    {[t |-> "number", items |-> <<>>]}
    \cup {[t |-> "list", items |-> [i \in 1..k |-> Video(i)]] : k \in 0..2}

VideosBodies ==
    {[t |-> "not_json", keys |-> {}, data |-> [t |-> "list", items |-> <<>>]],
     [t |-> "list", keys |-> {}, data |-> [t |-> "list", items |-> <<>>]],
     [t |-> "dict", keys |-> {"error", "status"}, data |-> [t |-> "list", items |-> <<>>]]}
    \cup {[t |-> "dict", keys |-> {"data", "pagination"}, data |-> d] : d \in VideosData}

VideosResponses ==
    {[raises |-> e, body |-> NoBody] : e \in TransportExc}
    \cup {[raises |-> NoExc, body |-> b] : b \in VideosBodies}

FollowsCall(user_id) == [ep |-> "helix/users/follows", params |-> <<user_id>>]
VideosCall(user_id) == [ep |-> "helix/videos", params |-> <<user_id>>]

get_follower_count_video_sentinel(fresp) ==
    LET r == Json(fresp)
    IN  IF r.exc = NoExc /\ r.val.t = "dict" /\ "total" \in r.val.keys
        THEN r.val.total ELSE VideoSentinel

\* try: return r["total"]   except: return 10000000
get_follower_count(fresp) ==
    LET r == Json(fresp)
    IN  IF r.exc # NoExc THEN FollowerSentinel
        ELSE LET tot == GetItem(r.val, "total")
             IN  IF tot.exc # NoExc THEN FollowerSentinel ELSE tot.val

get_video_count_zero(vresp) ==
    LET r == Json(vresp)
    IN  IF r.exc = NoExc /\ r.val.t = "dict" /\ "data" \in r.val.keys
           /\ r.val.data.t = "list"
        THEN Len(r.val.data.items) ELSE 0

\* try: return len(r["data"])   except: return 10000
get_video_count(vresp) ==
    LET r == Json(vresp)
    IN  IF r.exc # NoExc THEN VideoSentinel
        ELSE LET d == GetItem(r.val, "data")
             IN  IF d.exc # NoExc THEN VideoSentinel
                 ELSE IF d.val.t # "list" THEN VideoSentinel
                 ELSE Len(d.val.items)

UserIds == {UserId(n) : n \in UserNames}

Call_get_follower_count ==
    /\ pc = "idle"
    /\ \E user_id \in UserIds, fresp \in FollowsResponses :
          /\ op' = "get_follower_count"
          /\ arg' = user_id
          /\ resp' = fresp
          /\ result' = Return(get_follower_count(fresp))
          /\ calls' = <<FollowsCall(user_id)>>
    /\ pc' = "returned"
    /\ UNCHANGED <<environ, dotenv, store_reads, store_writes, app_info, headers>>

Call_get_video_count ==
    /\ pc = "idle"
    /\ \E user_id \in UserIds, vresp \in VideosResponses :
          /\ op' = "get_video_count"
          /\ arg' = user_id
          /\ resp' = vresp
          /\ result' = Return(get_video_count(vresp))
          /\ calls' = <<VideosCall(user_id)>>
    /\ pc' = "returned"
    /\ UNCHANGED <<environ, dotenv, store_reads, store_writes, app_info, headers>>

\* ----------------------------------------------------- get_stream_details
\* the streams a caller passes in: well formed, or lacking a key
DetailStreams ==
    {Stream("Ann", 101, StreamKeys), Stream("bob", 250, StreamKeys),
     Stream("Ann", 101, StreamKeys \ {"title"})}

EmptyMap == [keys |-> <<>>, info |-> [k \in {} |-> 0]]

\* one value of the dict comprehension of lines 96-106
SeedEntry(s) ==
    [user_id |-> s.user_id, viewer_count |-> s.viewer_count, title |-> s.title,
     thumbnail |-> s.thumbnail_url, started |-> s.started_at,
     display |-> Lower(s.user_name),
     broadcaster_type |-> Absent, channel_views |-> AbsentInt,
     followers |-> AbsentInt, videos |-> AbsentInt]

\* the keys one iteration of the comprehension subscripts, in order
SeedReads == <<"user_name", "user_id", "viewer_count", "title", "thumbnail_url",
               "started_at", "user_name">>

SeedExc(s) ==
    IF s.t # "dict" THEN "TypeError"
    ELSE IF \E i \in 1..Len(SeedReads) : SeedReads[i] \notin s.keys THEN "KeyError"
    ELSE NoExc

\* d[k] = v on a dict held as insertion order plus mapping
SetItem(d, k, v) ==
    [keys |-> IF k \in DOMAIN d.info THEN d.keys ELSE Append(d.keys, k),
     info |-> [x \in DOMAIN d.info \cup {k} |-> IF x = k THEN v ELSE d.info[x]]]

RECURSIVE Seed(_, _)
Seed(streams, acc) ==
    IF streams = <<>> THEN [exc |-> NoExc, val |-> acc]
    ELSE LET s == Head(streams)
         IN  IF SeedExc(s) # NoExc THEN [exc |-> SeedExc(s), val |-> acc]
             ELSE Seed(Tail(streams), SetItem(acc, Lower(s.user_name), SeedEntry(s)))

UserKeys == {"id", "login", "broadcaster_type", "view_count"}

UserRecord(login, tier, keys) ==
    [t |-> "dict", keys |-> keys, login |-> login, broadcaster_type |-> tier,
     view_count |-> 7]

FollowsFail == [raises |-> "ReadTimeout", body |-> [t |-> "not_json", keys |-> {}, total |-> 0]]
FollowsOk == [raises |-> NoExc, body |-> [t |-> "dict", keys |-> {"total", "data"}, total |-> 5]]
VideosFail == [raises |-> NoExc, body |-> NoBody]
VideosOk ==
    [raises |-> NoExc,
     body |-> [t |-> "dict", keys |-> {"data", "pagination"},
               data |-> [t |-> "list", items |-> <<Video(1), Video(2)>>]]]

\* a user record of the users response together with the answers the
\* platform gives to the two lookups made for it
UserItems ==
    {[rec |-> UserRecord(l, "", UserKeys), follows |-> f, videos |-> v] :
        l \in {"ann", "bob"}, f \in {FollowsFail, FollowsOk}, v \in {VideosFail, VideosOk}}
    \cup {[rec |-> r, follows |-> FollowsOk, videos |-> VideosOk] :
            r \in {UserRecord("ann", "partner", UserKeys),
                   UserRecord("bob", "partner", UserKeys),
                   UserRecord("ann", "affiliate", UserKeys),
                   UserRecord("ann", "", UserKeys \ {"login"}),
                   UserRecord("Ann", "", UserKeys),
                   UserRecord("ann", "", UserKeys \ {"broadcaster_type"}),
                   UserRecord("bob", "", UserKeys \ {"view_count"}),
                   [UserRecord("bob", "", {}) EXCEPT !.t = "number"]}}

UsersBodies ==
    {[t |-> "not_json", keys |-> {}, data |-> [t |-> "list", items |-> <<>>]],
     [t |-> "list", keys |-> {}, data |-> [t |-> "list", items |-> <<>>]],
     [t |-> "dict", keys |-> {"error", "status"}, data |-> [t |-> "list", items |-> <<>>]],
     [t |-> "dict", keys |-> {"data"}, data |-> [t |-> "number", items |-> <<>>]]}

\* what the platform answers during one get_stream_details
UsersScenarios ==
    {[users |-> [raises |-> e, body |-> NoBody], lookups |-> <<>>] :
        e \in {"ConnectionError", "ReadTimeout"}}
    \cup {[users |-> [raises |-> NoExc, body |-> b], lookups |-> <<>>] : b \in UsersBodies}
    \cup {[users |-> [raises |-> NoExc,
                      body |-> [t |-> "dict", keys |-> {"data"},
                                data |-> [t |-> "list",
                                          items |-> [i \in 1..Len(u) |-> u[i].rec]]]],
           lookups |-> [i \in 1..Len(u) |->
                          [follows |-> u[i].follows, videos |-> u[i].videos]]] :
          u \in SeqsUpTo(UserItems, MaxRecords)}

\* the condition of line 121
Unpartnered_or_affiliate(broadcaster_type) == broadcaster_type # "partner"
Unpartnered(broadcaster_type) == broadcaster_type = ""

UsersCall(stream_info) == [ep |-> "helix/users", params |-> stream_info.keys]

\* the for loop of lines 116-123 from record i on
RECURSIVE Enrich(_, _, _, _, _)
Enrich(records, lookups, i, stream_info, log) ==
    IF i > Len(records) THEN [exc |-> NoExc, val |-> stream_info, calls |-> log]
    ELSE
    LET rec == records[i]
        login == GetItem(rec, "login")
        bt == GetItem(rec, "broadcaster_type")
        vc == GetItem(rec, "view_count")
    IN  IF login.exc # NoExc THEN [exc |-> login.exc, val |-> stream_info, calls |-> log]
        ELSE IF login.val \notin DOMAIN stream_info.info
        THEN [exc |-> "KeyError", val |-> stream_info, calls |-> log]
        ELSE IF bt.exc # NoExc THEN [exc |-> bt.exc, val |-> stream_info, calls |-> log]
        ELSE IF vc.exc # NoExc
        THEN [exc |-> vc.exc,
              val |-> SetItem(stream_info, login.val,
                              [stream_info.info[login.val] EXCEPT
                                  !.broadcaster_type = bt.val]),
              calls |-> log]
        ELSE
        LET info == [stream_info.info[login.val] EXCEPT
                        !.broadcaster_type = bt.val, !.channel_views = vc.val]
        IN  IF Unpartnered(bt.val)
            THEN Enrich(records, lookups, i + 1,
                        SetItem(stream_info, login.val,
                                [info EXCEPT
                                   !.followers = get_follower_count(lookups[i].follows),
                                   !.videos = get_video_count(lookups[i].videos)]),
                        log \o <<FollowsCall(info.user_id), VideosCall(info.user_id)>>)
            ELSE Enrich(records, lookups, i + 1,
                        SetItem(stream_info, login.val, info), log)

\* The body of the try block of get_stream_details (lines 110-123).
StreamDetailsTry(stream_info, scenario) ==
    LET r == Json(scenario.users)
        log == <<UsersCall(stream_info)>>
    IN  IF r.exc # NoExc THEN [exc |-> r.exc, val |-> stream_info, calls |-> log]
        ELSE LET d == GetItem(r.val, "data")
             IN  IF d.exc # NoExc THEN [exc |-> d.exc, val |-> stream_info, calls |-> log]
                 ELSE IF d.val.t # "list"
                 THEN [exc |-> "TypeError", val |-> stream_info, calls |-> log]
                 ELSE Enrich(d.val.items, scenario.lookups, 1, stream_info, log)

\* [result |-> what the caller gets, calls |-> the requests issued]
get_stream_details(streams, scenario) ==
    LET seeded == Seed(streams, EmptyMap)
    IN  IF seeded.exc # NoExc THEN [result |-> Raise(seeded.exc), calls |-> <<>>]
        ELSE LET t == StreamDetailsTry(seeded.val, scenario)
             IN  IF t.exc # NoExc THEN [result |-> Return(EmptyMap), calls |-> t.calls]
                 ELSE [result |-> Return(t.val), calls |-> t.calls]

NotRequested == [users |-> [raises |-> NoExc, body |-> NoBody], lookups |-> <<>>]

Call_get_stream_details ==
    /\ pc = "idle"
    /\ \E streams \in SeqsUpTo(DetailStreams, MaxStreams) :
         \E scenario \in IF Seed(streams, EmptyMap).exc # NoExc
                         THEN {NotRequested} ELSE UsersScenarios :
             LET g == get_stream_details(streams, scenario)
             IN  /\ op' = "get_stream_details"
                 /\ arg' = streams
                 /\ resp' = scenario
                 /\ result' = g.result
                 /\ calls' = g.calls
    /\ pc' = "returned"
    /\ UNCHANGED <<environ, dotenv, store_reads, store_writes, app_info, headers>>

\* -------------------------------------------------------- get_panel_links
DescNull == [t |-> "null", words |-> <<>>]
Desc(words) == [t |-> "str", words |-> words]

Panel(link, desc, keys) ==
    [t |-> "dict", keys |-> keys, linkURL |-> link, description |-> desc]

PanelKeys == {"id", "linkURL", "description"}

PanelItems ==
    {Panel(l, d, PanelKeys) :
        l \in {None, "http://a.com"},
        d \in {DescNull, Desc(<<"hello">>), Desc(<<"see", "http://a.com", "www.b.tv">>)}}
    \cup {Panel("http://a.com", DescNull, PanelKeys \ {"linkURL"}),
          Panel("http://a.com", Desc(<<"hello">>), PanelKeys \ {"description"})}

PanelList(items) == [t |-> "list", items |-> items]

User(t, keys, panels) == [t |-> t, keys |-> keys, panels |-> panels]

PanelsElem(keys, dataKeys, user) ==
    [t |-> "dict", keys |-> keys,
     data |-> [t |-> "dict", keys |-> dataKeys, user |-> user]]

NoUser == User("null", {}, PanelList(<<>>))

PanelsElems ==
    {PanelsElem({"errors"}, {}, NoUser),
     PanelsElem({"data"}, {}, NoUser),
     PanelsElem({"data"}, {"user"}, NoUser),
     PanelsElem({"data"}, {"user"}, User("dict", {"id"}, PanelList(<<>>))),
     PanelsElem({"data"}, {"user"},
                User("dict", {"id", "panels"}, [t |-> "null", items |-> <<>>]))}
    \cup {PanelsElem({"data"}, {"user"}, User("dict", {"id", "panels"}, PanelList(ps))) :
            ps \in SeqsUpTo(PanelItems, MaxPanels)}

PanelsBodies ==
    {[t |-> k, keys |-> {}, items |-> <<>>] : k \in {"not_json", "number", "list"}}
    \cup {[t |-> "dict", keys |-> {"error", "message"}, items |-> <<>>]}
    \cup {[t |-> "list", keys |-> {}, items |-> <<e>>] : e \in PanelsElems}

PanelsResponses ==
    {[raises |-> e, body |-> [t |-> "not_json", keys |-> {}, items |-> <<>>]] :
        e \in {"ConnectionError", "ReadTimeout"}}
    \cup {[raises |-> NoExc, body |-> b] : b \in PanelsBodies}

\* r[0]
First(v) ==
    CASE v.t = "list" -> IF v.items = <<>> THEN [exc |-> "IndexError", val |-> v]
                         ELSE [exc |-> NoExc, val |-> v.items[1]]
      [] v.t = "dict" -> [exc |-> "KeyError", val |-> v]
      [] OTHER        -> [exc |-> "TypeError", val |-> v]

\* the words of a description that the URL pattern of line 216 matches
IsUrl(w) == w \in {"http://a.com", "www.b.tv"}
findall(words) == SelectSeq(words, IsUrl)

\* the for loop of lines 211-220
RECURSIVE PanelLinks(_, _)
PanelLinks(panels, links) ==
    IF panels = <<>> THEN [exc |-> NoExc, val |-> links]
    ELSE
    LET panel == Head(panels)
        url == GetItem(panel, "linkURL")
        desc == GetItem(panel, "description")
        links1 == IF url.exc = NoExc /\ Truthy(url.val) THEN Append(links, url.val)
                  ELSE links
    IN  IF url.exc # NoExc THEN [exc |-> url.exc, val |-> links]
        ELSE IF desc.exc # NoExc THEN [exc |-> desc.exc, val |-> links1]
        ELSE IF desc.val.t = "str" /\ desc.val.words # <<>>
             THEN PanelLinks(Tail(panels), links1 \o findall(desc.val.words))
             ELSE PanelLinks(Tail(panels), links1)

\* lines 210-222, after the try block: r[0]["data"]["user"]["panels"]
PanelsWalk(r) ==
    LET e == First(r)
    IN  IF e.exc # NoExc THEN [exc |-> e.exc, val |-> <<>>]
        ELSE LET d == GetItem(e.val, "data")
        IN  IF d.exc # NoExc THEN [exc |-> d.exc, val |-> <<>>]
        ELSE LET u == GetItem(d.val, "user")
        IN  IF u.exc # NoExc THEN [exc |-> u.exc, val |-> <<>>]
        ELSE LET ps == GetItem(u.val, "panels")
        IN  IF ps.exc # NoExc THEN [exc |-> ps.exc, val |-> <<>>]
        ELSE IF ps.val.t # "list" THEN [exc |-> "TypeError", val |-> <<>>]
        ELSE PanelLinks(ps.val.items, <<>>)

\* list(set(links)): the links without duplicates, in no particular order
ListOfSet(links) == {links[i] : i \in 1..Len(links)}

get_panel_links(presp) ==
    LET r == Json(presp)
    IN  IF r.exc # NoExc THEN Return({})
        ELSE LET w == PanelsWalk(r.val)
             IN  IF w.exc # NoExc THEN Raise(w.exc) ELSE Return(ListOfSet(w.val))

PanelsCall(user_id) == [ep |-> "gql", params |-> <<user_id>>]

Call_get_panel_links ==
    /\ pc = "idle"
    /\ \E user_id \in UserIds, presp \in PanelsResponses :
          /\ op' = "get_panel_links"
          /\ arg' = user_id
          /\ resp' = presp
          /\ result' = get_panel_links(presp)
          /\ calls' = <<PanelsCall(user_id)>>
    /\ pc' = "returned"
    /\ UNCHANGED <<environ, dotenv, store_reads, store_writes, app_info, headers>>

\* Control is back with the caller, which drops the result and the
\* operation's locals before its next call.
Caller_continues ==
    /\ pc = "returned"
    /\ pc' = "idle"
    /\ op' = "none"
    /\ arg' = <<>>
    /\ resp' = <<>>
    /\ result' = Return(<<>>)
    /\ calls' = <<>>
    /\ UNCHANGED <<environ, dotenv, store_reads, store_writes, app_info, headers>>

Init ==
    /\ pc = "start"
    /\ environ \in {None, "", "tok_old"}
    /\ dotenv = environ
    /\ store_reads = 0
    /\ store_writes = 0
    /\ app_info = NoInstance
    /\ headers = NoHeaders
    /\ op = "none"
    /\ arg = <<>>
    /\ resp = <<>>
    /\ result = Return(<<>>)
    /\ calls = <<>>

Next ==
    \/ TwitchApi_init
    \/ Call_get_top_streams
    \/ Call_get_follower_count
    \/ Call_get_video_count
    \/ Call_get_stream_details
    \/ Call_get_panel_links
    \/ Caller_continues

Spec == Init /\ [][Next]_vars

\* ================================================================== claims
CountCalls(ep) == Cardinality({i \in DOMAIN calls : calls[i].ep = ep})

\* a response that arrived and whose body decoded to a JSON object or array
Decoded(r) == r.raises = NoExc /\ r.body.t \in {"dict", "list"}
HasKey(r, key) == Decoded(r) /\ r.body.t = "dict" /\ key \in r.body.keys

Stored == Truthy(environ)
Validates == Stored /\ HasKey(resp.validate, "client_id")
FailsValidation == Stored /\ Decoded(resp.validate) /\ ~HasKey(resp.validate, "client_id")

\* C1: at construction a refresh call is issued exactly when there is no
\* stored token or the stored token's validation response lacks client_id;
\* a token that validates is returned unchanged with no refresh call and no
\* write of the store; a token that fails validation leads to exactly one
\* refresh call whose access token, if any, is persisted and returned.
C1_ValidateThenRefresh ==
    op = "__init__" =>
        /\ (CountCalls("oauth2/token") >= 1) <=> (~Stored \/ FailsValidation)
        /\ CountCalls("oauth2/token") <= 1
        /\ Validates =>
              /\ result = Return(environ)
              /\ app_info.token = environ
              /\ CountCalls("oauth2/token") = 0
              /\ store_writes = 0
              /\ dotenv = environ
        /\ FailsValidation =>
              /\ calls = <<ValidateCall(environ), TokenCall>>
              /\ HasKey(resp.token, "access_token") =>
                    /\ dotenv = resp.token.body.access_token
                    /\ store_writes = 1
                    /\ result = Return(resp.token.body.access_token)
                    /\ app_info.token = resp.token.body.access_token

C1_Witness ==
    /\ op = "__init__"
    /\ FailsValidation
    /\ environ = "tok_old"
    /\ dotenv = "tok_new"
    /\ result = Return("tok_new")

\* details of the users response of the last get_stream_details
UsersRecords ==
    IF HasKey(resp.users, "data") /\ resp.users.body.data.t = "list"
    THEN resp.users.body.data.items ELSE <<>>

HasTier(rec, tier) ==
    rec.t = "dict" /\ "broadcaster_type" \in rec.keys /\ rec.broadcaster_type = tier

StreamFails(s) == s.t # "dict" \/ ~(StreamKeys \subseteq s.keys)
SeedingFails == \E i \in DOMAIN arg : StreamFails(arg[i])
SeededKeys == {Lower(arg[i].user_name) : i \in DOMAIN arg}

RecordFails(rec) ==
    \/ rec.t # "dict"
    \/ ~({"login", "broadcaster_type", "view_count"} \subseteq rec.keys)
    \/ rec.login \notin SeededKeys

UsersCallFails ==
    \/ ~HasKey(resp.users, "data")
    \/ resp.users.body.data.t # "list"
    \/ \E i \in DOMAIN UsersRecords : RecordFails(UsersRecords[i])

\* C2 as stated: get_stream_details never lets an exception reach the
\* caller, and whenever any step fails (seeding, the users call, a malformed
\* response or record, an unknown login) it returns the empty mapping.
C2_AllOrNothing ==
    op = "get_stream_details" =>
        /\ result.raised = NoExc
        /\ (SeedingFails \/ UsersCallFails) => result.value = EmptyMap

Populated(entry) == entry.followers # AbsentInt /\ entry.videos # AbsentInt

\* C3 as stated: in every returned mapping an entry has followers and videos
\* exactly when its tier is the empty string, and each lookup is called once
\* for every user record of the response with the empty tier and never for
\* any other record.
C3_AsStated ==
    (op = "get_stream_details" /\ result.raised = NoExc) =>
        /\ \A k \in DOMAIN result.value.info :
              Populated(result.value.info[k])
                  <=> result.value.info[k].broadcaster_type = ""
        /\ CountCalls("helix/users/follows")
              = Cardinality({i \in DOMAIN UsersRecords : HasTier(UsersRecords[i], "")})
        /\ CountCalls("helix/videos")
              = Cardinality({i \in DOMAIN UsersRecords : HasTier(UsersRecords[i], "")})

\* the records the loop handles: those before the first one that fails
Processed(i) == \A j \in 1..i : ~RecordFails(UsersRecords[j])

\* the user id the mapping holds for a login: that of the last stream seeded
\* under it
UserIdOf(login) ==
    LET last == CHOOSE i \in DOMAIN arg :
                    /\ Lower(arg[i].user_name) = login
                    /\ \A j \in DOMAIN arg : Lower(arg[j].user_name) = login => j <= i
    IN  arg[last].user_id

RECURSIVE ExpectedLookups(_)
ExpectedLookups(i) ==
    IF i > Len(UsersRecords) \/ ~Processed(i) THEN <<>>
    ELSE IF HasTier(UsersRecords[i], "")
         THEN <<FollowsCall(UserIdOf(UsersRecords[i].login)),
                VideosCall(UserIdOf(UsersRecords[i].login))>> \o ExpectedLookups(i + 1)
         ELSE ExpectedLookups(i + 1)

\* C3 amended: in every returned mapping an entry whose tier is the empty
\* string has followers and videos, and an entry has either of them only if
\* it has both and some user record for its login carried the empty tier;
\* the lookups made are, in order, one follower and one video lookup for each
\* empty-tier record that the loop processes (every record up to it is well
\* formed and names a key of the mapping), and none for any other record.
C3_EnrichmentFollowsTier ==
    (op = "get_stream_details" /\ result.raised = NoExc) =>
        /\ \A k \in DOMAIN result.value.info :
              LET entry == result.value.info[k]
              IN  /\ entry.broadcaster_type = "" => Populated(entry)
                  /\ (entry.followers # AbsentInt \/ entry.videos # AbsentInt) =>
                        /\ Populated(entry)
                        /\ \E i \in DOMAIN UsersRecords :
                              /\ HasTier(UsersRecords[i], "")
                              /\ UsersRecords[i].login = k
        /\ SubSeq(calls, 2, Len(calls)) = ExpectedLookups(1)
        /\ \A i \in DOMAIN UsersRecords :
              (HasTier(UsersRecords[i], "partner") \/ HasTier(UsersRecords[i], "affiliate"))
                  /\ (\A j \in DOMAIN UsersRecords : j # i =>
                         ~HasTier(UsersRecords[j], ""))
              => CountCalls("helix/users/follows") + CountCalls("helix/videos") = 0

C3_Witness ==
    /\ op = "get_stream_details"
    /\ result.raised = NoExc
    /\ DOMAIN result.value.info = {"ann", "bob"}
    /\ result.value.info["ann"].broadcaster_type = "partner"
    /\ ~Populated(result.value.info["ann"])
    /\ result.value.info["bob"].broadcaster_type = ""
    /\ Populated(result.value.info["bob"])
    /\ CountCalls("helix/users/follows") = 1
    /\ CountCalls("helix/videos") = 1

StreamsFailure ==
    \/ ~HasKey(resp, "data")
    \/ resp.body.data.t # "list"
    \/ \E i \in DOMAIN resp.body.data.items :
          LET s == resp.body.data.items[i]
          IN  s.t # "dict" \/ "viewer_count" \notin s.keys

\* C4 as stated: get_top_streams never lets a failure reach the caller; on a
\* transport failure (connection, TLS, timeout) or a malformed response (not
\* JSON, no data, data not a list of records, a record without viewer_count)
\* it returns the empty sequence.
C4_NeverPropagates ==
    op = "get_top_streams" =>
        /\ result.raised = NoExc
        /\ StreamsFailure => result.value = <<>>

PanelsFailure ==
    \/ ~Decoded(resp)
    \/ PanelsWalk(resp.body).exc # NoExc

\* C5 as stated: get_panel_links never lets a failure reach the caller; on a
\* transport failure or a response it cannot walk (not JSON, empty list,
\* missing data/user/panels, null user, panel without linkURL or description)
\* it returns the empty collection.
C5_NeverPropagates ==
    op = "get_panel_links" =>
        /\ result.raised = NoExc
        /\ PanelsFailure => result.value = {}

\* C6: when the refresh response holds no access token the process exits
\* with the diagnostic: no client instance exists, exactly one refresh call
\* and at most one validation call were issued, and the store is as it was.
C6_FatalWithoutToken ==
    /\ (op = "__init__" /\ CountCalls("oauth2/token") >= 1
          /\ Decoded(resp.token) /\ ~HasKey(resp.token, "access_token"))
       => pc = "exited"
    /\ pc = "exited" =>
          /\ result = [raised |-> "SystemExit", value |-> "Unable to generate access token"]
          /\ app_info = NoInstance
          /\ headers = NoHeaders
          /\ CountCalls("oauth2/token") = 1
          /\ CountCalls("oauth2/validate") <= 1
          /\ calls[Len(calls)] = TokenCall
          /\ dotenv = environ
          /\ store_writes = 0

C6_Witness ==
    /\ pc = "exited"
    /\ environ = "tok_old"
    /\ calls = <<ValidateCall("tok_old"), TokenCall>>

\* C7: get_follower_count and get_video_count always return; when the call
\* fails (transport error, timeout, body that is not JSON, no total/data)
\* they return 10,000,000 and 10,000; when it succeeds they return the
\* response's total and the number of records in data.
C7_SentinelOnFailure ==
    /\ op = "get_follower_count" =>
          /\ result.raised = NoExc
          /\ result.value = IF HasKey(resp, "total") THEN resp.body.total ELSE 10000000
    /\ op = "get_video_count" =>
          /\ result.raised = NoExc
          /\ result.value = IF HasKey(resp, "data") /\ resp.body.data.t = "list"
                            THEN Len(resp.body.data.items) ELSE 10000

C7_Witness ==
    /\ op = "get_follower_count"
    /\ resp.raises = "ReadTimeout"
    /\ result.value = 10000000

HasInstance == pc \in {"idle", "returned"}

\* C9: once the client is constructed no step changes app_info or headers
\* nor reads or writes the credential store; the store is written at most
\* once, and only while constructing.
C9_CredentialFrame ==
    /\ [][HasInstance => UNCHANGED <<app_info, headers, environ, dotenv,
                                      store_reads, store_writes>>]_vars
    /\ [][store_writes' # store_writes => pc = "start"]_vars
    /\ [](store_writes <= 1 /\ store_reads <= 1)

C9_Witness ==
    /\ pc = "returned"
    /\ op = "get_stream_details"
    /\ store_writes = 1
    /\ dotenv = "tok_new"
    /\ app_info.token = "tok_new"

WellFormedUsers ==
    /\ ~SeedingFails
    /\ ~UsersCallFails
    /\ \A i, j \in DOMAIN UsersRecords :
          UsersRecords[i].login = UsersRecords[j].login => i = j

LookupFailed(r, key) == ~HasKey(r, key)

\* C10: when the users call and its records are well formed (one record per
\* login), a failed follower or video lookup does not abandon
\* get_stream_details: it returns the full mapping, and the entry of the
\* account carries 10,000,000 for followers, 10,000 for videos, in place of
\* the failed lookup.
C10_LookupFailureKeepsMapping ==
    (op = "get_stream_details" /\ WellFormedUsers) =>
        /\ result.raised = NoExc
        /\ DOMAIN result.value.info = SeededKeys
        /\ \A i \in DOMAIN UsersRecords :
              HasTier(UsersRecords[i], "") =>
                 LET entry == result.value.info[UsersRecords[i].login]
                 IN  /\ LookupFailed(resp.lookups[i].follows, "total")
                          => entry.followers = 10000000
                     /\ LookupFailed(resp.lookups[i].videos, "data")
                          => entry.videos = 10000

C10_Witness ==
    /\ op = "get_stream_details"
    /\ WellFormedUsers
    /\ Len(UsersRecords) = 2
    /\ \A i \in DOMAIN UsersRecords : HasTier(UsersRecords[i], "")
    /\ LookupFailed(resp.lookups[1].follows, "total")
    /\ ~LookupFailed(resp.lookups[1].videos, "data")
    /\ LookupFailed(resp.lookups[2].videos, "data")
    /\ result.value.info["ann"].followers = 10000000
    /\ result.value.info["bob"].videos = 10000

====
